---------------------------- MODULE Spec2Model ----------------------------
(***************************************************************************)
(* A model of oauth1.go (package auth): the OAuth 1.0a mixin with its      *)
(* three handlers (AuthorizeRedirect, AuthorizeToken,                      *)
(* GetAuthenticatedUser), the callback test RedirectRequired, the signing   *)
(* helpers (headers, sign, requestString, authorizationString) and the     *)
(* package-level tokenCache, an LRU cache of request-token secrets.        *)
(*                                                                         *)
(* Go strings are sequences of one-character strings, so that len(),       *)
(* byte-wise ordering and url.QueryEscape are computed, not assumed.       *)
(***************************************************************************)
EXTENDS Integers, Sequences, FiniteSets, TLC

\* ------------------------------------------------------------------------
\* Bounds of the model
\* ------------------------------------------------------------------------

\* Capacity of tokenCache in bytes.  The program uses 1048576; the model
\* scales it down so that eviction happens with short secrets.
Capacity == 3

\* The wall clock (time.Now().Unix()) runs over 0..MaxTime.
MaxTime == 1

\* The number of authorization attempts that run concurrently.
MaxFlows == 2

\* ------------------------------------------------------------------------
\* Strings
\* ------------------------------------------------------------------------

\* The printable ASCII characters in byte order, from 32 (space) to 126 (~).
\* Byte 96 is written "(grave)": the character cannot stand in a TLA+ string,
\* and no value of the model holds it.
Printable ==
  <<" ","!","\"","#","$","%","&","'","(",")","*","+",",","-",".","/",
    "0","1","2","3","4","5","6","7","8","9",":",";","<","=",">","?","@",
    "A","B","C","D","E","F","G","H","I","J","K","L","M","N","O","P","Q",
    "R","S","T","U","V","W","X","Y","Z","[","\\","]","^","_","(grave)",
    "a","b","c","d","e","f","g","h","i","j","k","l","m","n","o","p","q",
    "r","s","t","u","v","w","x","y","z","{","|","}","~">>

Chars == { Printable[i] : i \in 1..Len(Printable) }

\* The byte value of a character.
Ord == [ c \in Chars |-> 31 + (CHOOSE i \in 1..Len(Printable) : Printable[i] = c) ]

\* Byte-wise lexicographic order of Go strings (the order of sort.StringSlice).
RECURSIVE Less(_, _)
Less(a, b) ==
  IF b = <<>> THEN FALSE
  ELSE IF a = <<>> THEN TRUE
  ELSE IF Head(a) = Head(b) THEN Less(Tail(a), Tail(b))
  ELSE Ord[Head(a)] < Ord[Head(b)]

\* The keys of a map, collected and sorted ascending.
RECURSIVE SortStrings(_)
SortStrings(keys) ==
  IF keys = {} THEN <<>>
  ELSE LET least == CHOOSE k \in keys : \A j \in keys \ {k} : Less(k, j)
       IN  <<least>> \o SortStrings(keys \ {least})

HexDigits == <<"0","1","2","3","4","5","6","7","8","9","A","B","C","D","E","F">>

DecDigits == <<"0","1","2","3","4","5","6","7","8","9">>

\* strconv.FormatInt(n, 10) for n >= 0.
RECURSIVE FormatInt(_)
FormatInt(n) ==
  IF n < 10 THEN <<DecDigits[n + 1]>>
  ELSE FormatInt(n \div 10) \o <<DecDigits[(n % 10) + 1]>>

\* net/url shouldEscape in query-component mode: letters, digits and the
\* marks - _ . ~ are left alone.
shouldEscape(c) ==
  ~ (  (Ord[c] >= Ord["a"] /\ Ord[c] <= Ord["z"])
    \/ (Ord[c] >= Ord["A"] /\ Ord[c] <= Ord["Z"])
    \/ (Ord[c] >= Ord["0"] /\ Ord[c] <= Ord["9"])
    \/ c \in {"-", "_", ".", "~"} )

\* url.QueryEscape: a space becomes "+", any other escaped byte %XX.
RECURSIVE QueryEscape(_)
QueryEscape(s) ==
  IF s = <<>> THEN <<>>
  ELSE LET c == Head(s)
           e == IF ~ shouldEscape(c) THEN <<c>>
                ELSE IF c = " " THEN <<"+">>
                ELSE <<"%", HexDigits[(Ord[c] \div 16) + 1], HexDigits[(Ord[c] % 16) + 1]>>
       IN  e \o QueryEscape(Tail(s))

\* url.Values.Get: the first value of the key, or "" when there is none.
ValuesGet(values, key) ==
  IF key \in DOMAIN values /\ Len(values[key]) > 0 THEN values[key][1] ELSE <<>>

\* ------------------------------------------------------------------------
\* Names of the OAuth parameters
\* ------------------------------------------------------------------------

oauth_consumer_key == <<"o","a","u","t","h","_","c","o","n","s","u","m","e","r","_","k","e","y">>
oauth_nonce == <<"o","a","u","t","h","_","n","o","n","c","e">>
oauth_signature_method == <<"o","a","u","t","h","_","s","i","g","n","a","t","u","r","e","_","m","e","t","h","o","d">>
oauth_timestamp == <<"o","a","u","t","h","_","t","i","m","e","s","t","a","m","p">>
oauth_version == <<"o","a","u","t","h","_","v","e","r","s","i","o","n">>
oauth_callback == <<"o","a","u","t","h","_","c","a","l","l","b","a","c","k">>
oauth_signature == <<"o","a","u","t","h","_","s","i","g","n","a","t","u","r","e">>
oauth_token == <<"o","a","u","t","h","_","t","o","k","e","n">>
oauth_verifier == <<"o","a","u","t","h","_","v","e","r","i","f","i","e","r">>
oauth_token_secret == <<"o","a","u","t","h","_","t","o","k","e","n","_","s","e","c","r","e","t">>

\* ------------------------------------------------------------------------
\* The signing helpers
\* ------------------------------------------------------------------------

\* rand.New(rand.NewSource(seed)).Int63(): the first output of a generator
\* is a fixed function of its seed.  The generator itself is not modelled;
\* any fixed function of the seed stands for it.
Int63(seed) == (seed * 48271 + 11) % 65536

\* OAuth1Mixin.headers at wall-clock second t: nonce and timestamp are both
\* derived from time.Now().Unix().
headers(mixin, t) ==
  (oauth_consumer_key :> mixin.ConsumerKey)
    @@ (oauth_nonce :> FormatInt(Int63(t)))
    @@ (oauth_signature_method :> <<"H","M","A","C","-","S","H","A","1">>)
    @@ (oauth_timestamp :> FormatInt(t))
    @@ (oauth_version :> <<"1",".","0">>)

\* sign: base64 of HMAC-SHA1(key, message).  The digest is an ideal keyed
\* function: it is represented by the text that determines it, between
\* braces (a character url.QueryEscape never produces).
sign(message, key) == <<"{">> \o key \o <<"|">> \o message \o <<"}">>

\* requestString: the signature base string.
RECURSIVE requestStringLoop(_, _, _)
requestStringLoop(keys, pos, params) ==
  IF pos > Len(keys) THEN <<>>
  ELSE (IF pos = 1 THEN <<"&">> ELSE QueryEscape(<<"&">>))
         \o QueryEscape(keys[pos] \o <<"=">> \o QueryEscape(params[keys[pos]]))
         \o requestStringLoop(keys, pos + 1, params)

requestString(method, uri, params) ==
  method \o <<"&">> \o QueryEscape(uri)
    \o requestStringLoop(SortStrings(DOMAIN params), 1, params)

\* A variant of authorizationStringLoop that query-escapes the values.
RECURSIVE authorizationStringLoopEscaped(_, _, _)
authorizationStringLoopEscaped(keys, pos, params) ==
  IF pos > Len(keys) THEN <<>>
  ELSE (IF pos > 1 THEN <<",">> ELSE <<>>)
         \o keys[pos] \o <<"=", "\"">> \o QueryEscape(params[keys[pos]]) \o <<"\"">>
         \o authorizationStringLoopEscaped(keys, pos + 1, params)

\* authorizationString: the value of the Authorization header.
RECURSIVE authorizationStringLoop(_, _, _)
authorizationStringLoop(keys, pos, params) ==
  IF pos > Len(keys) THEN <<>>
  ELSE (IF pos > 1 THEN <<",">> ELSE <<>>)
         \o keys[pos] \o <<"=", "\"">> \o params[keys[pos]] \o <<"\"">>
         \o authorizationStringLoop(keys, pos + 1, params)

authorizationString(params) ==
  <<"O","A","u","t","h"," ">>
    \o authorizationStringLoop(SortStrings(DOMAIN params), 1, params)

\* ------------------------------------------------------------------------
\* tokenCache: cache.NewLRUCache(capacity) of the vitess cache package
\* ------------------------------------------------------------------------

\* tokenCacheItem.Size: the size the cache accounts for a stored secret.
tokenCacheItemSize(i) == Len(i)

\* requestToken.Size: the size of a token together with its secret.
requestTokenSize(t) == Len(t.Token) + Len(t.Secret)

\* An LRUCache: the list of entries, most recently used first, the accounted
\* size and the capacity.  The table (key -> list element) is the list's index.
NewLRUCache(capacity) == [list |-> <<>>, size |-> 0, capacity |-> capacity]

\* table[key]: the position of the key's element in the list, or 0.
tableLookup(c, key) ==
  IF \E i \in 1..Len(c.list) : c.list[i].key = key
    THEN CHOOSE i \in 1..Len(c.list) : c.list[i].key = key
    ELSE 0

moveToFront(list, i) ==
  <<list[i]>> \o SubSeq(list, 1, i - 1) \o SubSeq(list, i + 1, Len(list))

\* checkCapacity: drop elements from the back while the size is over capacity.
RECURSIVE checkCapacity(_)
checkCapacity(c) ==
  IF c.size > c.capacity
    THEN checkCapacity([c EXCEPT !.list = SubSeq(c.list, 1, Len(c.list) - 1),
                                 !.size = c.size - c.list[Len(c.list)].size])
    ELSE c

addNew(c, key, value) ==
  checkCapacity([c EXCEPT
    !.list = <<[key |-> key, value |-> value, size |-> tokenCacheItemSize(value)]>> \o c.list,
    !.size = c.size + tokenCacheItemSize(value)])

updateInplace(c, i, value) ==
  checkCapacity([c EXCEPT
    !.list = moveToFront([c.list EXCEPT ![i].value = value,
                                        ![i].size = tokenCacheItemSize(value)], i),
    !.size = c.size + tokenCacheItemSize(value) - c.list[i].size])

\* LRUCache.Set
LRUSet(c, key, value) ==
  IF tableLookup(c, key) # 0
    THEN updateInplace(c, tableLookup(c, key), value)
    ELSE addNew(c, key, value)

\* A variant of LRUGet that leaves a hit where it is in the list.
LRUGetUntouched(c, key) ==
  LET i == tableLookup(c, key)
  IN  IF i = 0
        THEN [v |-> <<>>, ok |-> FALSE, cache |-> c]
        ELSE [v |-> c.list[i].value, ok |-> TRUE, cache |-> c]

\* LRUCache.Get: the value, whether it was found, and the cache afterwards
\* (a hit moves the element to the front).
LRUGet(c, key) ==
  LET i == tableLookup(c, key)
  IN  IF i = 0
        THEN [v |-> <<>>, ok |-> FALSE, cache |-> c]
        ELSE [v |-> c.list[i].value, ok |-> TRUE,
              cache |-> [c EXCEPT !.list = moveToFront(c.list, i)]]

\* The keys stored, and the stored entries as a mapping key -> value.
Keys(c) == { c.list[i].key : i \in 1..Len(c.list) }

Entries(c) == [ k \in Keys(c) |-> c.list[tableLookup(c, k)].value ]

\* ------------------------------------------------------------------------
\* Maps, url.Values and URLs
\* ------------------------------------------------------------------------

\* m[key] = value on a Go map.
MapSet(m, key, value) == (key :> value) @@ m

\* A map with no entry.
EmptyMap == [k \in {} |-> <<>>]

\* url.Values.Add: append the value to the key's list.
ValuesAdd(values, key, value) ==
  IF key \in DOMAIN values
    THEN [values EXCEPT ![key] = Append(@, value)]
    ELSE MapSet(values, key, <<value>>)

\* url.Values.Encode: key=value pairs, keys sorted, both query-escaped,
\* joined by "&".
RECURSIVE encodeValuesOf(_, _, _)
encodeValuesOf(key, vals, i) ==
  IF i > Len(vals) THEN <<>>
  ELSE <<QueryEscape(key) \o <<"=">> \o QueryEscape(vals[i])>>
         \o encodeValuesOf(key, vals, i + 1)

RECURSIVE encodePairs(_, _, _)
encodePairs(keys, pos, values) ==
  IF pos > Len(keys) THEN <<>>
  ELSE encodeValuesOf(keys[pos], values[keys[pos]], 1)
         \o encodePairs(keys, pos + 1, values)

RECURSIVE JoinAmp(_)
JoinAmp(pairs) ==
  IF pairs = <<>> THEN <<>>
  ELSE IF Len(pairs) = 1 THEN pairs[1]
  ELSE pairs[1] \o <<"&">> \o JoinAmp(Tail(pairs))

ValuesEncode(values) ==
  JoinAmp(encodePairs(SortStrings(DOMAIN values), 1, values))

\* url.Parse of an absolute URL without fragment: what precedes the first
\* "?" and the raw query after it.
urlParse(s) ==
  IF \E i \in 1..Len(s) : s[i] = "?"
    THEN LET q == CHOOSE i \in 1..Len(s) :
                    s[i] = "?" /\ \A j \in 1..(i - 1) : s[j] # "?"
         IN  [prefix |-> SubSeq(s, 1, q - 1), RawQuery |-> SubSeq(s, q + 1, Len(s))]
    ELSE [prefix |-> s, RawQuery |-> <<>>]

\* URL.String
urlString(u) ==
  IF u.RawQuery = <<>> THEN u.prefix ELSE u.prefix \o <<"?">> \o u.RawQuery

\* ------------------------------------------------------------------------
\* The handlers
\* ------------------------------------------------------------------------

\* The signing block shared by the three handlers: the base string of the
\* request, its signature added to the headers, and the Authorization header.
withAuthorization(method, uri, key, base, signed) ==
  [Method |-> method, URL |-> uri, key |-> key, base |-> base,
   headers |-> signed, Authorization |-> authorizationString(signed)]

withSignature(method, uri, hdrs, key, base) ==
  withAuthorization(method, uri, key, base,
                    MapSet(hdrs, oauth_signature, sign(base, key)))

\* A variant of signedRequest in which oauth_signature is already a
\* parameter when the base string is built.
signedRequestSignatureFirst(method, uri, hdrs, key) ==
  withSignature(method, uri, hdrs, key,
                requestString(method, uri, MapSet(hdrs, oauth_signature, <<>>)))

signedRequest(method, uri, hdrs, key) ==
  withSignature(method, uri, hdrs, key, requestString(method, uri, hdrs))

\* A variant of RedirectRequired that tests the presence of the key, not
\* the value.
RedirectRequiredAbsent(query) == oauth_verifier \notin DOMAIN query

\* RedirectRequired
RedirectRequired(query) == ValuesGet(query, oauth_verifier) = <<>>

\* A variant of tokenMissing that fails only when both fields are missing.
tokenMissingBoth(requestToken, secretToken) ==
  Len(requestToken) = 0 /\ Len(secretToken) = 0

\* The test of AuthorizeRedirect on the provider's answer.
tokenMissing(requestToken, secretToken) ==
  Len(requestToken) = 0 \/ Len(secretToken) = 0

\* A variant of cacheSecret with the arguments of Set exchanged.
cacheSecretSwapped(cache, requestToken, secretToken) ==
  LRUSet(cache, secretToken, requestToken)

\* A variant of cacheSecret that keeps the secret already stored for a token.
cacheSecretIfAbsent(cache, requestToken, secretToken) ==
  IF tableLookup(cache, requestToken) # 0 THEN cache
  ELSE LRUSet(cache, requestToken, secretToken)

\* A variant of cacheSecret that evicts as soon as the size reaches the
\* capacity, not only when it exceeds it.
cacheSecretUntilBelow(cache, requestToken, secretToken) ==
  [LRUSet([cache EXCEPT !.capacity = @ - 1], requestToken, secretToken)
     EXCEPT !.capacity = cache.capacity]

\* tokenCache.Set(requestToken, tokenCacheItem(secretToken))
cacheSecret(cache, requestToken, secretToken) ==
  LRUSet(cache, requestToken, secretToken)

\* A variant of cachedSecret that removes the entry it returns.
cachedSecretOnce(cache, token) ==
  LET i == tableLookup(cache, token)
  IN  IF i = 0 THEN LRUGet(cache, token)
      ELSE [v |-> cache.list[i].value, ok |-> TRUE,
            cache |-> [cache EXCEPT
              !.list = SubSeq(cache.list, 1, i - 1) \o SubSeq(cache.list, i + 1, Len(cache.list)),
              !.size = cache.size - cache.list[i].size]]

\* A variant of cachedSecret that goes on with an empty secret when the
\* token is not stored.
cachedSecretOrEmpty(cache, token) ==
  IF tableLookup(cache, token) # 0 THEN LRUGet(cache, token)
  ELSE [v |-> <<>>, ok |-> TRUE, cache |-> cache]

\* tokenCache.Get(token)
cachedSecret(cache, token) == LRUGet(cache, token)

\* The login URL: the endpoint with the encoded parameters as its query.
loginUrlOf(endpoint, values) ==
  [values |-> values,
   url |-> urlString([urlParse(endpoint) EXCEPT !.RawQuery = ValuesEncode(values)])]

loginUrl(endpoint, params, requestToken) ==
  loginUrlOf(endpoint, ValuesAdd(IF params.isNil THEN EmptyMap ELSE params.m,
                                 oauth_token, requestToken))

\* What AuthorizeRedirect does once the provider's answer is accepted.
redirected(req, cache, params, login) ==
  [result |-> "ok", err |-> "nil", sent |-> <<req>>, cache |-> cache,
   redirect |-> <<[Location |-> login.url, code |-> 303]>>,
   params |-> [isNil |-> params.isNil,
               m |-> IF params.isNil THEN params.m ELSE login.values],
   ret |-> <<>>]

\* AuthorizeRedirect, given the provider's answer resp: the outcome, the
\* request sent, the cache afterwards, the redirect written and the caller's
\* params afterwards.
AuthorizeRedirect(mixin, cache, t, endpoint, params, resp) ==
  LET hdrs == MapSet(headers(mixin, t), oauth_callback, mixin.CallbackUrl)
      key == QueryEscape(mixin.ConsumerSecret) \o <<"&">> \o QueryEscape(<<>>)
      req == signedRequest(<<"G","E","T">>, mixin.RequestToken, hdrs, key)
      requestToken == ValuesGet(resp.parts, oauth_token)
      secretToken == ValuesGet(resp.parts, oauth_token_secret)
      failed(err) == [result |-> "error", err |-> err, sent |-> <<req>>,
                      cache |-> cache, redirect |-> <<>>, params |-> params,
                      ret |-> <<>>]
  IN  IF resp.kind # "body" THEN failed(resp.kind)
      ELSE IF tokenMissing(requestToken, secretToken) THEN failed("body")
      ELSE redirected(req, cacheSecret(cache, requestToken, secretToken), params,
                      loginUrl(endpoint, params, requestToken))

\* AuthorizeToken, given the callback's query and the provider's answer.
\* The type assertion on the value of a missed lookup (a nil interface)
\* panics.
AuthorizeToken(mixin, cache, t, query, resp) ==
  LET token == ValuesGet(query, oauth_token)
      verifier == ValuesGet(query, oauth_verifier)
      got == cachedSecret(cache, token)
      hdrs == MapSet(MapSet(headers(mixin, t), oauth_token, token),
                     oauth_verifier, verifier)
      key == QueryEscape(mixin.ConsumerSecret) \o <<"&">> \o QueryEscape(got.v)
      req == signedRequest(<<"G","E","T">>, mixin.AccessToken, hdrs, key)
      failed(err) == [result |-> "error", err |-> err, sent |-> <<req>>,
                      cache |-> got.cache, redirect |-> <<>>,
                      ret |-> << <<>>, <<>> >>]
  IN  IF ~ got.ok
        THEN [result |-> "panic", err |-> "nil", sent |-> <<>>,
              cache |-> got.cache, redirect |-> <<>>, ret |-> <<>>]
      ELSE IF resp.kind # "body" THEN failed(resp.kind)
      ELSE [result |-> "ok", err |-> "nil", sent |-> <<req>>,
            cache |-> got.cache, redirect |-> <<>>,
            ret |-> <<ValuesGet(resp.parts, oauth_token),
                      ValuesGet(resp.parts, oauth_token_secret)>>]

\* GetAuthenticatedUser, given the resource server's answer; json.Unmarshal
\* fails on a body that is not JSON.
GetAuthenticatedUser(mixin, cache, t, endpoint, token, secret, resp) ==
  LET hdrs == MapSet(headers(mixin, t), oauth_token, token)
      key == QueryEscape(mixin.ConsumerSecret) \o <<"&">> \o QueryEscape(secret)
      req == signedRequest(<<"G","E","T">>, endpoint, hdrs, key)
  IN  [result |-> IF resp.kind = "json" THEN "ok" ELSE "error",
       err |-> IF resp.kind = "json" THEN "nil" ELSE resp.kind,
       sent |-> <<req>>, cache |-> cache, redirect |-> <<>>, ret |-> <<>>]

\* ------------------------------------------------------------------------
\* The inputs of the model
\* ------------------------------------------------------------------------

\* The request tokens the provider issues; one holds a character that a
\* query escapes.
Tokens == { <<"a">>, <<"b">>, <<"c", "/">> }

\* A token the provider never issued.
Forged == <<"z">>

\* A secret too long for the whole cache.
Oversize == [i \in 1..(Capacity + 1) |-> "x"]

\* A secret that fills the cache exactly.
Full == [i \in 1..Capacity |-> "y"]

\* The token secrets the provider issues; one holds a space.
Secrets == { <<"s">>, <<"t", " ">>, Full, Oversize }

\* A parsed query or form body: the listed values of each key that occurs.
Form(keyA, valsA, keyB, valsB) ==
  (IF valsA = <<>> THEN EmptyMap ELSE keyA :> valsA)
    @@ (IF valsB = <<>> THEN EmptyMap ELSE keyB :> valsB)

\* The answers to a token request: the call fails, the body cannot be
\* read, the body cannot be parsed, or a form with or without each field.
TransportFailures == { "Do", "ReadAll", "ParseQuery" }

Failure(kind) == [kind |-> kind, parts |-> EmptyMap]

Body(tokenVals, secretVals) ==
  [kind |-> "body", parts |-> Form(oauth_token, tokenVals, oauth_token_secret, secretVals)]

RequestTokenAnswers ==
  { Failure(k) : k \in TransportFailures }
    \cup { Body(tv, sv) : tv \in {<<>>} \cup { <<tok>> : tok \in Tokens },
                          sv \in {<<>>} \cup { <<sec>> : sec \in Secrets } }

AccessTokenAnswers ==
  { Failure(k) : k \in TransportFailures }
    \cup { Body(tv, sv) : tv \in { <<>>, << <<"t","o","k">> >> },
                          sv \in { <<>>, << <<"s","e","c">> >> } }

\* The callback queries.
VerifierValues == { <<>>, << <<>> >>, << <<"v">> >>, << <<>>, <<"v">> >> }

CallbackQueries ==
  { Form(oauth_token, tv, oauth_verifier, vv) :
      tv \in {<<>>} \cup { <<tok>> : tok \in Tokens \cup {Forged} },
      vv \in { <<>>, << <<"v">> >> } }

VerifierQueries ==
  { Form(oauth_token, << <<"a">> >>, oauth_verifier, vv) : vv \in VerifierValues }

\* The params argument of AuthorizeRedirect: nil, the caller's map, or the
\* caller's map as an earlier call that was issued the token a left it.
NilParams == [isNil |-> TRUE, m |-> EmptyMap]

ParamsArgs ==
  { NilParams,
    [isNil |-> FALSE, m |-> (<<"x">> :> << <<"1">> >>)],
    [isNil |-> FALSE, m |-> (<<"x">> :> << <<"1">> >>)
                              @@ (oauth_token :> << <<"a">> >>)] }

Endpoints == { <<"h","t","t","p",":","/","/","p","/","l">> }

ResourceEndpoints == { <<"h","t","t","p",":","/","/","p","/","u">> }

\* The access tokens the provider issues.
AccessTokens == { [Token |-> <<"t","o","k">>, Secret |-> <<"s","e","c">>] }

ResourceAnswers == { [kind |-> "Do"], [kind |-> "ReadAll"],
                     [kind |-> "Unmarshal"], [kind |-> "json"] }

\* ------------------------------------------------------------------------
\* One authorization attempt: AuthorizeRedirect, then the callback handled
\* by AuthorizeToken
\* ------------------------------------------------------------------------

FlowIds == 1..MaxFlows

\* The result of a lookup that was not made.
NoSecret == [v |-> <<>>, ok |-> FALSE]

\* An attempt before its first step.  pc names the statement to run next;
\* attempt is the state of the attempt and from the state it had before.
NewFlow ==
  [pc |-> "start", token |-> <<>>, secret |-> <<>>, found |-> FALSE,
   got |-> NoSecret, seen |-> NoSecret, stored |-> FALSE, redirected |-> FALSE,
   attempt |-> "Start", from |-> "Start"]

\* ------------------------------------------------------------------------
\* The state
\* ------------------------------------------------------------------------

VARIABLES
  self,        \* the OAuth1Mixin
  tokenCache,  \* the package-level LRU cache
  now,         \* time.Now().Unix()
  out,         \* the call being returned: its inputs and all it produced
  prev,        \* tokenCache as it was when that call began
  touchOrder,  \* the stored keys, the most recently touched first
  flows,       \* the authorization attempts running concurrently
  mu,          \* the holder of the cache's mutex, or 0
  seq          \* the cache had its operations run one after the other

vars == <<self, tokenCache, now, out, prev, touchOrder, flows, mu, seq>>

\* The state of the concurrent attempts, which the calls made one at a time
\* leave alone.
flowVars == <<flows, mu, seq>>

Mixin ==
  [AuthorizeUrl   |-> <<"h","t","t","p",":","/","/","p","/","l">>,
   RequestToken   |-> <<"h","t","t","p",":","/","/","p","/","r">>,
   AccessToken    |-> <<"h","t","t","p",":","/","/","p","/","a">>,
   CallbackUrl    |-> <<"h","t","t","p",":","/","/","c","/","c","b">>,
   ConsumerKey    |-> <<"c","k">>,
   ConsumerSecret |-> <<"k","&">>]

NoCall ==
  [op |-> "none", in |-> <<>>, result |-> "none", err |-> "nil", sent |-> <<>>,
   redirect |-> <<>>, ret |-> <<>>, at |-> 0]

Init ==
  /\ self = Mixin
  /\ tokenCache = NewLRUCache(Capacity)
  /\ now = 0
  /\ out = NoCall
  /\ prev = NewLRUCache(Capacity)
  /\ touchOrder = <<>>
  /\ flows = [i \in FlowIds |-> NewFlow]
  /\ mu = 0
  /\ seq = NewLRUCache(Capacity)

\* The touch order after key was touched, kept to the keys still stored.
Touched(order, key, cache) ==
  LET moved == <<key>> \o SelectSeq(order, LAMBDA k : k # key)
  IN  SelectSeq(moved, LAMBDA k : k \in Keys(cache))

\* No call is being returned: the next one may begin.
Idle == out.op = "none"

\* A second passes between two calls.
Tick ==
  /\ Idle
  /\ now < MaxTime
  /\ now' = now + 1
  /\ UNCHANGED <<self, tokenCache, out, prev, touchOrder>>
  /\ UNCHANGED flowVars

\* A call returns r: the record of the call, the cache it leaves, and the
\* touch of the key it looked up or stored (none: touched = {}).
Returns(op, in, r, touched) ==
  /\ out' = [op |-> op, in |-> in, result |-> r.result, err |-> r.err,
             sent |-> r.sent, redirect |-> r.redirect, ret |-> r.ret, at |-> now]
  /\ tokenCache' = r.cache
  /\ prev' = tokenCache
  /\ touchOrder' = IF touched = {} THEN touchOrder
                   ELSE Touched(touchOrder, CHOOSE k \in touched : TRUE, r.cache)
  /\ UNCHANGED <<self, now>>
  /\ UNCHANGED flowVars

RedirectRequiredCall ==
  /\ Idle
  /\ \E query \in VerifierQueries :
       Returns("RedirectRequired", [query |-> query],
               [result |-> "ok", err |-> "nil", sent |-> <<>>, cache |-> tokenCache,
                redirect |-> <<>>, ret |-> <<RedirectRequired(query)>>],
               {})

AuthorizeRedirectReturns(in, r) ==
  Returns("AuthorizeRedirect", [in EXCEPT !.paramsAfter = r.params], r,
          IF r.result = "ok" THEN {ValuesGet(in.resp.parts, oauth_token)} ELSE {})

AuthorizeRedirectCall ==
  /\ Idle
  /\ \E endpoint \in Endpoints, params \in ParamsArgs, resp \in RequestTokenAnswers :
       AuthorizeRedirectReturns(
         [endpoint |-> endpoint, params |-> params, resp |-> resp,
          paramsAfter |-> params],
         AuthorizeRedirect(self, tokenCache, now, endpoint, params, resp))

AuthorizeTokenCall ==
  /\ Idle
  /\ \E query \in CallbackQueries, resp \in AccessTokenAnswers :
       Returns("AuthorizeToken", [query |-> query, resp |-> resp],
               AuthorizeToken(self, tokenCache, now, query, resp),
               {ValuesGet(query, oauth_token)} \cap Keys(tokenCache))

GetAuthenticatedUserCall ==
  /\ Idle
  /\ \E endpoint \in ResourceEndpoints, token \in AccessTokens, resp \in ResourceAnswers :
       Returns("GetAuthenticatedUser",
               [endpoint |-> endpoint, token |-> token, resp |-> resp],
               GetAuthenticatedUser(self, tokenCache, now, endpoint,
                                    token.Token, token.Secret, resp),
               {})

\* The caller takes the result of the call.
Return ==
  /\ ~ Idle
  /\ out' = NoCall
  /\ prev' = tokenCache
  /\ UNCHANGED <<self, tokenCache, now, touchOrder>>
  /\ UNCHANGED flowVars

Next ==
  \/ Tick
  \/ RedirectRequiredCall
  \/ AuthorizeRedirectCall
  \/ AuthorizeTokenCall
  \/ GetAuthenticatedUserCall
  \/ Return

Spec == Init /\ [][Next]_vars

\* ------------------------------------------------------------------------
\* Reading a URL back, as the user agent does
\* ------------------------------------------------------------------------

Chr(n) == Printable[n - 31]

HexVal(c) == (CHOOSE i \in 1..16 : HexDigits[i] = c) - 1

\* url.QueryUnescape of a well-formed escaped text.
RECURSIVE QueryUnescape(_)
QueryUnescape(s) ==
  IF s = <<>> THEN <<>>
  ELSE IF s[1] = "+" THEN <<" ">> \o QueryUnescape(Tail(s))
  ELSE IF s[1] = "%"
    THEN <<Chr(16 * HexVal(s[2]) + HexVal(s[3]))>> \o QueryUnescape(SubSeq(s, 4, Len(s)))
  ELSE <<s[1]>> \o QueryUnescape(Tail(s))

\* The text before the first sep, and the text after it.
Cut(s, sep) ==
  IF \E i \in 1..Len(s) : s[i] = sep
    THEN LET q == CHOOSE i \in 1..Len(s) :
                    s[i] = sep /\ \A j \in 1..(i - 1) : s[j] # sep
         IN  [before |-> SubSeq(s, 1, q - 1), after |-> SubSeq(s, q + 1, Len(s)),
              found |-> TRUE]
    ELSE [before |-> s, after |-> <<>>, found |-> FALSE]

\* url.ParseQuery: the values of each key of a raw query, in order.
RECURSIVE ParseQuery(_)
ParseQuery(raw) ==
  IF raw = <<>> THEN EmptyMap
  ELSE LET pair == Cut(raw, "&")
           kv == Cut(pair.before, "=")
           rest == ParseQuery(pair.after)
       IN  IF pair.before = <<>> THEN rest
           ELSE LET key == QueryUnescape(kv.before)
                    value == QueryUnescape(kv.after)
                IN  IF key \in DOMAIN rest
                      THEN [rest EXCEPT ![key] = <<value>> \o @]
                      ELSE MapSet(rest, key, <<value>>)

\* The values of a key in the query of a URL.
QueryValues(location, key) ==
  LET values == ParseQuery(urlParse(location).RawQuery)
  IN  IF key \in DOMAIN values
        THEN { values[key][i] : i \in 1..Len(values[key]) }
        ELSE {}

\* ------------------------------------------------------------------------
\* The call being returned
\* ------------------------------------------------------------------------

IsAuthorizeRedirect == out.op = "AuthorizeRedirect"

IsAuthorizeToken == out.op = "AuthorizeToken"

\* The fields of the provider's answer to the call.
AnswerToken == ValuesGet(out.in.resp.parts, oauth_token)

AnswerSecret == ValuesGet(out.in.resp.parts, oauth_token_secret)

\* The oauth_token and oauth_verifier of the callback.
CallbackToken == ValuesGet(out.in.query, oauth_token)

CallbackVerifier == ValuesGet(out.in.query, oauth_verifier)

\* The call ended in failure: it returned an error, or it panicked.
Failed == out.result \in {"error", "panic"}

\* The size of the store as the specification accounts it: the sum over
\* the entries of len(token) + len(secret).
RECURSIVE SumRequestTokenSize(_, _)
SumRequestTokenSize(list, i) ==
  IF i > Len(list) THEN 0
  ELSE requestTokenSize([Token |-> list[i].key, Secret |-> list[i].value])
         + SumRequestTokenSize(list, i + 1)

\* ------------------------------------------------------------------------
\* The claims
\* ------------------------------------------------------------------------

\* C1: AuthorizeToken called with an oauth_token that is not in the store
\* fails with an error: it returns an error and no access token, and sends
\* no access-token request signed with an empty token secret.
C1_UnknownTokenReturnsError ==
  (IsAuthorizeToken /\ CallbackToken \notin Keys(prev))
    => /\ out.result = "error"
       /\ out.err # "nil"
       /\ out.ret = << <<>>, <<>> >>
       /\ \A i \in 1..Len(out.sent) :
            out.sent[i].key # QueryEscape(self.ConsumerSecret) \o <<"&">>

\* C2 as stated: when AuthorizeRedirect succeeds on an answer with non-empty
\* oauth_token T and oauth_token_secret S, the store maps T to S on return
\* and the query of the redirect URL holds oauth_token=T.
C2_RedirectStoresSecret ==
  (IsAuthorizeRedirect /\ out.result = "ok" /\ AnswerToken # <<>> /\ AnswerSecret # <<>>)
    => /\ AnswerToken \in Keys(tokenCache)
       /\ Entries(tokenCache)[AnswerToken] = AnswerSecret
       /\ Len(out.redirect) = 1
       /\ AnswerToken \in QueryValues(out.redirect[1].Location, oauth_token)

\* C2 amended: the same, for a secret no longer than the capacity of the
\* store; a longer secret is dropped by the put that stores it.
C2_RedirectStoresSecretThatFits ==
  (IsAuthorizeRedirect /\ out.result = "ok" /\ AnswerToken # <<>> /\ AnswerSecret # <<>>
     /\ Len(AnswerSecret) <= tokenCache.capacity)
    => /\ AnswerToken \in Keys(tokenCache)
       /\ Entries(tokenCache)[AnswerToken] = AnswerSecret
       /\ Len(out.redirect) = 1
       /\ AnswerToken \in QueryValues(out.redirect[1].Location, oauth_token)

\* C2 witness: a successful AuthorizeRedirect whose secret fits has replaced
\* an older secret of the same token, and evicted another entry to do so.
C2_Witness ==
  /\ IsAuthorizeRedirect /\ out.result = "ok"
  /\ Len(AnswerSecret) <= tokenCache.capacity
  /\ AnswerToken \in Keys(prev)
  /\ Entries(prev)[AnswerToken] # AnswerSecret
  /\ Keys(prev) \ Keys(tokenCache) # {}

\* C3: AuthorizeRedirect returns an error and writes no redirect whenever
\* the transport call fails or the answer lacks oauth_token or lacks
\* oauth_token_secret (one of them empty is enough).
C3_RedirectFailsOnBadAnswer ==
  (IsAuthorizeRedirect
     /\ (out.in.resp.kind # "body" \/ AnswerToken = <<>> \/ AnswerSecret = <<>>))
    => /\ out.result = "error"
       /\ out.err # "nil"
       /\ out.redirect = <<>>

\* C3 witness: the answer carries a token and no secret, and the call failed.
C3_Witness ==
  /\ IsAuthorizeRedirect
  /\ out.in.resp.kind = "body" /\ AnswerToken # <<>> /\ AnswerSecret = <<>>
  /\ out.result = "error"

C5_SizeWithinCapacity ==
  SumRequestTokenSize(tokenCache.list, 1) <= tokenCache.capacity

\* C6: when a put pushes the store over capacity, entries are evicted in
\* least-recently-touched order, a put and a get of a key both being a
\* touch: no entry is evicted while an entry touched less recently than it
\* stays stored.  touchOrder is the order of the touches before the step;
\* the step's own touch comes first.
Position(order, key) == CHOOSE i \in 1..Len(order) : order[i] = key

TouchedByStep ==
  IF out'.op = "AuthorizeRedirect" /\ out'.result = "ok"
    THEN {ValuesGet(out'.in.resp.parts, oauth_token)}
  ELSE IF out'.op = "AuthorizeToken"
    THEN {ValuesGet(out'.in.query, oauth_token)} \cap Keys(tokenCache)
  ELSE {}

OrderAfterTouch ==
  IF TouchedByStep = {} THEN touchOrder
  ELSE LET key == CHOOSE k \in TouchedByStep : TRUE
       IN  <<key>> \o SelectSeq(touchOrder, LAMBDA k : k # key)

EvictedLeastRecentlyTouched ==
  \A evicted \in Keys(tokenCache) \ Keys(tokenCache') :
    \A kept \in Keys(tokenCache') :
      Position(OrderAfterTouch, kept) < Position(OrderAfterTouch, evicted)

C6_EvictionFollowsTouchOrder == [][EvictedLeastRecentlyTouched]_vars

\* C6 witness: a put evicted an entry and kept another one that it did not
\* itself store.
C6_Witness ==
  /\ IsAuthorizeRedirect /\ out.result = "ok"
  /\ Keys(prev) \ Keys(tokenCache) # {}
  /\ (Keys(prev) \cap Keys(tokenCache)) \ {AnswerToken} # {}

\* C7: a put of one entry whose size, len(token) + len(secret), exceeds the
\* capacity of the whole store does not keep the entry: after it a get of
\* the key finds nothing and the total size of the store is within capacity.
C7_OversizeEntryNotRetained ==
  (IsAuthorizeRedirect /\ out.result = "ok"
     /\ requestTokenSize([Token |-> AnswerToken, Secret |-> AnswerSecret])
          > tokenCache.capacity)
    => /\ ~ LRUGet(tokenCache, AnswerToken).ok
       /\ SumRequestTokenSize(tokenCache.list, 1) <= tokenCache.capacity

\* C8: a put(k, v) that does not exceed the capacity is followed by a get(k)
\* that finds exactly v, also when k was stored before with another value;
\* and the get that AuthorizeToken makes finds what the store holds.
C8_GetAfterPut ==
  /\ (IsAuthorizeRedirect /\ out.result = "ok"
        /\ tokenCacheItemSize(AnswerSecret) <= tokenCache.capacity)
       => /\ LRUGet(tokenCache, AnswerToken).ok
          /\ LRUGet(tokenCache, AnswerToken).v = AnswerSecret
  /\ (IsAuthorizeToken /\ CallbackToken \in Keys(prev))
       => /\ Len(out.sent) = 1
          /\ out.sent[1].key = QueryEscape(self.ConsumerSecret) \o <<"&">>
                                 \o QueryEscape(Entries(prev)[CallbackToken])

\* C8 witness: the put replaced another value of the same key.
C8_Witness ==
  /\ IsAuthorizeRedirect /\ out.result = "ok"
  /\ AnswerToken \in Keys(prev)
  /\ Entries(prev)[AnswerToken] # AnswerSecret
  /\ LRUGet(tokenCache, AnswerToken).v = AnswerSecret

\* C9 as stated, RedirectRequired being the callback test of the program:
\* it returns true if and only if the query carries a non-empty
\* oauth_verifier.
CarriesVerifier(query) ==
  /\ oauth_verifier \in DOMAIN query
  /\ \E i \in 1..Len(query[oauth_verifier]) : query[oauth_verifier][i] # <<>>

C9_TrueIffVerifier ==
  out.op = "RedirectRequired"
    => (out.ret[1] <=> CarriesVerifier(out.in.query))

\* C9 amended: RedirectRequired returns true if and only if the first
\* oauth_verifier of the query is absent or empty; the callback is complete
\* exactly when it returns false.
C9_TrueIffNoFirstVerifier ==
  out.op = "RedirectRequired"
    => (out.ret[1] <=> (\/ oauth_verifier \notin DOMAIN out.in.query
                        \/ out.in.query[oauth_verifier][1] = <<>>))

\* C9 witness: the query holds an empty oauth_verifier, and the answer is
\* true.
C9_Witness ==
  /\ out.op = "RedirectRequired"
  /\ oauth_verifier \in DOMAIN out.in.query
  /\ out.in.query[oauth_verifier][1] = <<>>
  /\ out.ret[1] = TRUE

\* The percent-encoding of the specification: every character but the
\* unreserved ones (letters, digits, - . _ ~) becomes %XX.
RECURSIVE percentEncode(_)
percentEncode(s) ==
  IF s = <<>> THEN <<>>
  ELSE (IF shouldEscape(Head(s))
          THEN <<"%", HexDigits[(Ord[Head(s)] \div 16) + 1],
                 HexDigits[(Ord[Head(s)] % 16) + 1]>>
          ELSE <<Head(s)>>)
         \o percentEncode(Tail(s))

\* C10: with T -> S in the store, AuthorizeToken on a callback with
\* oauth_token=T and oauth_verifier=V signs the access-token request with
\* the key percentEncode(consumerSecret) & percentEncode(S) over parameters
\* holding oauth_token=T and oauth_verifier=V, and returns the token and
\* secret of the provider's answer with no error.
C10_AccessTokenExchange ==
  (IsAuthorizeToken /\ CallbackToken \in Keys(prev))
    => /\ Len(out.sent) = 1
       /\ out.sent[1].key = percentEncode(self.ConsumerSecret) \o <<"&">>
                              \o percentEncode(Entries(prev)[CallbackToken])
       /\ out.sent[1].headers[oauth_token] = CallbackToken
       /\ out.sent[1].headers[oauth_verifier] = CallbackVerifier
       /\ (out.in.resp.kind = "body" /\ AnswerToken # <<>> /\ AnswerSecret # <<>>)
            => /\ out.result = "ok"
               /\ out.err = "nil"
               /\ out.ret = <<AnswerToken, AnswerSecret>>

\* C11: AuthorizeToken fails, and returns no access token, whenever the
\* provider's access-token answer is malformed or lacks oauth_token or
\* oauth_token_secret; it never returns success with an empty token or an
\* empty secret.  (The token of the callback is in the store, so that the
\* exchange reaches the provider.)
C11_AccessTokenAnswerChecked ==
  (IsAuthorizeToken /\ CallbackToken \in Keys(prev))
    => /\ (out.in.resp.kind # "body" \/ AnswerToken = <<>> \/ AnswerSecret = <<>>)
            => /\ out.result = "error"
               /\ out.err # "nil"
               /\ out.ret = << <<>>, <<>> >>
       /\ out.result = "ok" => (out.ret[1] # <<>> /\ out.ret[2] # <<>>)

\* The five keys every request carries, and the keys of each leg.
MandatoryKeys ==
  { oauth_consumer_key, oauth_nonce, oauth_signature_method, oauth_timestamp,
    oauth_version }

LegKeys(op) ==
  IF op = "AuthorizeRedirect" THEN {oauth_callback}
  ELSE IF op = "AuthorizeToken" THEN {oauth_token, oauth_verifier}
  ELSE {oauth_token}

\* The text sub occurs in s (sub is not empty).
Contains(s, sub) ==
  \E i \in 1..(Len(s) - Len(sub) + 1) :
    s[i] = sub[1] /\ SubSeq(s, i, i + Len(sub) - 1) = sub

\* The parameters of a request without its signature.
Unsigned(hdrs) == [k \in DOMAIN hdrs \ {oauth_signature} |-> hdrs[k]]

\* A request of leg op was signed over its full parameter set: the keys are
\* the mandatory ones, the leg's own and oauth_signature; the signature is
\* that of the base string of all the others; the base string holds no
\* oauth_signature parameter; the Authorization header holds every one.
SignedOverAll(op, req) ==
  /\ DOMAIN req.headers = MandatoryKeys \cup LegKeys(op) \cup {oauth_signature}
  /\ req.base = requestString(req.Method, req.URL, Unsigned(req.headers))
  /\ req.headers[oauth_signature] = sign(req.base, req.key)
  /\ ~ Contains(req.base, QueryEscape(oauth_signature \o <<"=">>))
  /\ \A k \in DOMAIN req.headers :
       Contains(req.Authorization,
                k \o <<"=", "\"">> \o req.headers[k] \o <<"\"">>)

\* C12: in each signed outbound request (of AuthorizeRedirect, AuthorizeToken
\* and GetAuthenticatedUser) the parameter set holds the five mandatory keys
\* and every key of the leg before the signature is computed; the signature
\* is computed over exactly those parameters and added afterwards, so the
\* base string holds no oauth_signature and the Authorization header holds
\* every signed parameter and oauth_signature.
C12_SignedAfterPopulated ==
  \A i \in 1..Len(out.sent) : SignedOverAll(out.op, out.sent[i])

\* C12 witness: an access-token request went out with the token and the
\* verifier of the callback among its signed parameters.
C12_Witness ==
  /\ IsAuthorizeToken /\ Len(out.sent) = 1
  /\ out.sent[1].headers[oauth_token] = <<"c", "/">>
  /\ out.sent[1].headers[oauth_verifier] = <<"v">>
  /\ oauth_signature \in DOMAIN out.sent[1].headers

\* ------------------------------------------------------------------------
\* Concurrent attempts: the handlers run statement by statement, several
\* requests at a time, on the one tokenCache
\* ------------------------------------------------------------------------

\* What the provider answers in the concurrent attempts: a failed call, or
\* a token with a secret; one token is issued with two secrets, and one
\* secret fills the cache.
FlowAnswers ==
  { Failure("Do"),
    Body(<< <<"a">> >>, << <<"s">> >>),
    Body(<< <<"a">> >>, <<Full>>),
    Body(<< <<"b">> >>, << <<"s">> >>) }

FlowAccessAnswers ==
  { Failure("Do"), Body(<< <<"t","o","k">> >>, << <<"s","e","c">> >>) }

\* The variables of the calls made one at a time.
callVars == <<self, now, out, prev, touchOrder>>

\* A variant of stepAfter in which the redirect is written before the
\* secret is stored.
stepAfterRedirectFirst(step) ==
  IF step = "answer" THEN "redirect"
  ELSE IF step = "redirect" THEN "set"
  ELSE "callback"

\* The order of the statements of AuthorizeRedirect once the provider's
\* answer is accepted: tokenCache.Set, http.Redirect, return nil (after
\* which the user agent calls back).
stepAfter(step) ==
  IF step = "answer" THEN "set"
  ELSE IF step = "set" THEN "redirect"
  ELSE "callback"

\* A variant of muFree that lets every caller in.
muIgnored(m) == TRUE

\* mu.Lock() of the cache goes through when no one holds the mutex.
muFree(m) == m = 0

\* AuthorizeRedirect up to the test of the provider's answer.
RequestTokenStep(i) ==
  /\ flows[i].pc = "start"
  /\ \E resp \in FlowAnswers :
       flows' = [flows EXCEPT ![i] =
         IF resp.kind # "body"
              \/ tokenMissing(ValuesGet(resp.parts, oauth_token),
                              ValuesGet(resp.parts, oauth_token_secret))
           THEN [@ EXCEPT !.pc = "done", !.attempt = "Failed",
                          !.from = flows[i].attempt]
           ELSE [@ EXCEPT !.pc = stepAfter("answer"),
                          !.token = ValuesGet(resp.parts, oauth_token),
                          !.secret = ValuesGet(resp.parts, oauth_token_secret),
                          !.attempt = "RequestTokenObtained",
                          !.from = flows[i].attempt]]
  /\ UNCHANGED <<tokenCache, mu, seq>>
  /\ UNCHANGED callVars

\* tokenCache.Set: lock and look the key up; then update or add, and unlock.
SetLock(i) ==
  /\ flows[i].pc = "set"
  /\ muFree(mu)
  /\ mu' = i
  /\ flows' = [flows EXCEPT ![i].pc = "setApply",
                            ![i].found = tableLookup(tokenCache, flows[i].token) # 0]
  /\ UNCHANGED <<tokenCache, seq>>
  /\ UNCHANGED callVars

SetApply(i) ==
  /\ flows[i].pc = "setApply"
  /\ tokenCache' =
       IF flows[i].found /\ tableLookup(tokenCache, flows[i].token) # 0
         THEN updateInplace(tokenCache, tableLookup(tokenCache, flows[i].token),
                            flows[i].secret)
         ELSE addNew(tokenCache, flows[i].token, flows[i].secret)
  /\ seq' = LRUSet(seq, flows[i].token, flows[i].secret)
  /\ mu' = 0
  /\ flows' = [flows EXCEPT ![i].pc = stepAfter("set"), ![i].found = FALSE,
                            ![i].stored = TRUE]
  /\ UNCHANGED callVars

\* http.Redirect to the login URL.
RedirectStep(i) ==
  /\ flows[i].pc = "redirect"
  /\ flows' = [flows EXCEPT ![i] =
       [@ EXCEPT !.pc = stepAfter("redirect"), !.redirected = TRUE,
                 !.attempt = "Redirected", !.from = flows[i].attempt]]
  /\ UNCHANGED <<tokenCache, mu, seq>>
  /\ UNCHANGED callVars

\* A callback that no redirect preceded, with a token never issued.
ForgedCallback(i) ==
  /\ flows[i].pc = "start"
  /\ flows' = [flows EXCEPT ![i].pc = "callback", ![i].token = Forged]
  /\ UNCHANGED <<tokenCache, mu, seq>>
  /\ UNCHANGED callVars

\* The user agent calls back with its token (once more after a failed
\* exchange) and AuthorizeToken makes its tokenCache.Get: under the lock,
\* look the key up and move it to the front.
GetReads(i, g, h) ==
  /\ tokenCache' = g.cache
  /\ seq' = h.cache
  /\ flows' = [flows EXCEPT ![i].pc = "exchange",
                            ![i].got = [v |-> g.v, ok |-> g.ok],
                            ![i].seen = [v |-> h.v, ok |-> h.ok]]
  /\ UNCHANGED mu
  /\ UNCHANGED callVars

CallbackGet(i) ==
  /\ flows[i].pc = "callback"
  /\ muFree(mu)
  /\ GetReads(i, cachedSecret(tokenCache, flows[i].token), LRUGet(seq, flows[i].token))

\* The rest of AuthorizeToken: the type assertion panics on a miss; otherwise
\* the request is signed with the secret and the provider answers.
ExchangeStep(i) ==
  /\ flows[i].pc = "exchange"
  /\ \E resp \in FlowAccessAnswers :
       flows' = [flows EXCEPT ![i] =
         IF flows[i].got.ok /\ resp.kind = "body"
           THEN [@ EXCEPT !.pc = "done", !.got = NoSecret, !.seen = NoSecret,
                          !.attempt = "Authorized", !.from = flows[i].attempt]
           ELSE [@ EXCEPT !.pc = IF flows[i].redirected THEN "callback" ELSE "done",
                          !.got = NoSecret, !.seen = NoSecret,
                          !.attempt = "Failed", !.from = flows[i].attempt]]
  /\ UNCHANGED <<tokenCache, mu, seq>>
  /\ UNCHANGED callVars

NextFlows ==
  \E i \in FlowIds :
    \/ RequestTokenStep(i)
    \/ SetLock(i)
    \/ SetApply(i)
    \/ RedirectStep(i)
    \/ ForgedCallback(i)
    \/ CallbackGet(i)
    \/ ExchangeStep(i)

SpecFlows == Init /\ [][NextFlows]_vars

\* The pairs of token and secret the provider issued to the attempts.
Issued ==
  { <<flows[i].token, flows[i].secret>> :
      i \in { j \in FlowIds : flows[j].attempt # "Start" /\ flows[j].secret # <<>> } }

\* The sum of the sizes of the entries of a list.
RECURSIVE SumSize(_, _)
SumSize(list, i) ==
  IF i > Len(list) THEN 0 ELSE list[i].size + SumSize(list, i + 1)

\* C13: under every interleaving of concurrent AuthorizeRedirect and
\* AuthorizeToken calls on the one tokenCache, put, get and eviction take
\* effect atomically: the cache is at every moment what the same operations
\* give run one after the other (seq), each key is stored once and the size
\* is the sum of the entries' and within capacity, an entry for T holds a
\* secret issued together with T, and a get returns the secret stored then.
C13_StoreOperationsAtomic ==
  /\ tokenCache = seq
  /\ \A p, q \in 1..Len(tokenCache.list) :
       tokenCache.list[p].key = tokenCache.list[q].key => p = q
  /\ tokenCache.size = SumSize(tokenCache.list, 1)
  /\ tokenCache.size <= tokenCache.capacity
  /\ \A p \in 1..Len(tokenCache.list) :
       <<tokenCache.list[p].key, tokenCache.list[p].value>> \in Issued
  /\ \A i \in FlowIds :
       /\ flows[i].got = flows[i].seen
       /\ flows[i].got.ok => <<flows[i].token, flows[i].got.v>> \in Issued

\* C13 witness: two attempts were issued the same token with different
\* secrets, both stored it, and a get then returned one of the two.
C13_Witness ==
  \E i, j \in FlowIds :
    /\ i # j
    /\ flows[i].token = flows[j].token
    /\ flows[i].secret # flows[j].secret
    /\ flows[i].stored /\ flows[j].stored
    /\ flows[i].pc = "exchange" /\ flows[i].got.ok
    /\ flows[i].got.v = flows[j].secret

\* ------------------------------------------------------------------------
\* The signing helpers on their own: each is applied to inputs drawn from
\* bounded sets
\* ------------------------------------------------------------------------

\* The texts given to url.QueryEscape: every printable character but the
\* grave accent, and two longer texts.
EscapeInputs ==
  { <<Printable[i]>> : i \in { j \in 1..Len(Printable) : Printable[j] # "(grave)" } }
    \cup { <<"a", " ", "b">>, <<"~", "/", "%", "A">> }

\* The parameter mappings given to authorizationString: every mapping from
\* a set of these keys to these values.
ParamKeys == { <<"a">>, <<"b">>, <<"a", "b">>, <<"B">> }

ParamValues == { <<"1">>, <<"2">>, <<" ", "%", "=">> }

ParamMaps == UNION { [keys -> ParamValues] : keys \in SUBSET ParamKeys }

\* A helper was applied to in and gave ret; before is what the call before
\* it gave, kept for the calls of headers.
Applied(op, in, ret) ==
  /\ out' = [NoCall EXCEPT !.op = op,
                           !.in = [arg |-> in,
                                   before |-> IF op = "headers" /\ out.op = op
                                                THEN out.ret ELSE <<>>],
                           !.ret = <<ret>>, !.at = now]
  /\ UNCHANGED <<self, tokenCache, now, prev, touchOrder>>
  /\ UNCHANGED flowVars

headersCall == Applied("headers", <<>>, headers(self, now))

QueryEscapeCall == \E s \in EscapeInputs : Applied("QueryEscape", s, QueryEscape(s))

authorizationStringCall ==
  \E params \in ParamMaps :
    Applied("authorizationString", params, authorizationString(params))

\* A second passes, whatever was called last.
SecondPasses ==
  /\ now < MaxTime
  /\ now' = now + 1
  /\ UNCHANGED <<self, tokenCache, out, prev, touchOrder>>
  /\ UNCHANGED flowVars

NextSigner ==
  \/ headersCall
  \/ QueryEscapeCall
  \/ authorizationStringCall
  \/ SecondPasses

SpecSigner == Init /\ [][NextSigner]_vars

\* C14: every call of headers produces a fresh oauth_nonce: two calls, also
\* two made within the same wall-clock second, give different nonces.
C14_FreshNonce ==
  (out.op = "headers" /\ out.in.before # <<>>)
    => out.ret[1][oauth_nonce] # out.in.before[1][oauth_nonce]

\* C15 as stated: each attempt follows the order Start,
\* RequestTokenObtained, Redirected, then Authorized or Failed; an attempt
\* is Authorized (AuthorizeToken returned with no error) only after
\* AuthorizeRedirect obtained and stored its request token and redirected
\* the user, and never from Start or from Failed.
C15_AttemptOrder ==
  \A i \in FlowIds :
    /\ flows[i].attempt = "RequestTokenObtained" => flows[i].from = "Start"
    /\ flows[i].attempt = "Redirected"
         => flows[i].from = "RequestTokenObtained" /\ flows[i].stored
    /\ flows[i].attempt = "Authorized"
         => /\ flows[i].from = "Redirected"
            /\ flows[i].stored /\ flows[i].redirected

\* C15 amended: the same order, and an attempt is Authorized only after its
\* request token was obtained and stored and the user redirected, never from
\* Start and never after a failed AuthorizeRedirect; but an attempt that
\* Failed in AuthorizeToken is Authorized when its callback is repeated and
\* the exchange then succeeds.
C15_AttemptOrderWithRetry ==
  \A i \in FlowIds :
    /\ flows[i].attempt = "RequestTokenObtained" => flows[i].from = "Start"
    /\ flows[i].attempt = "Redirected"
         => flows[i].from = "RequestTokenObtained" /\ flows[i].stored
    /\ flows[i].attempt = "Authorized"
         => /\ flows[i].from \in {"Redirected", "Failed"}
            /\ flows[i].stored /\ flows[i].redirected

\* C15 witness: an attempt was redirected, failed in AuthorizeToken, and is
\* Authorized after the callback was repeated.
C15_Witness ==
  \E i \in FlowIds :
    /\ flows[i].attempt = "Authorized" /\ flows[i].from = "Failed"
    /\ flows[i].stored /\ flows[i].redirected

\* The pair key="value", the value as it is.
PairText(key, value) == key \o <<"=", "\"">> \o value \o <<"\"">>

\* The length of the pairs of the given keys, each with the comma after it.
RECURSIVE PairsLength(_, _)
PairsLength(keys, params) ==
  IF keys = {} THEN 0
  ELSE LET k == CHOOSE x \in keys : TRUE
       IN  Len(PairText(k, params[k])) + 1 + PairsLength(keys \ {k}, params)

\* text is the Authorization header of params: "OAuth ", then each pair at
\* the place the pairs of the smaller keys leave it, a comma before it unless
\* it is the first, and nothing more.
IsAuthorizationOf(text, params) ==
  /\ Len(text) = 6 + PairsLength(DOMAIN params, params)
                   - (IF DOMAIN params = {} THEN 0 ELSE 1)
  /\ SubSeq(text, 1, 6) = <<"O","A","u","t","h"," ">>
  /\ \A k \in DOMAIN params :
       LET smaller == { j \in DOMAIN params : Less(j, k) }
           at == 6 + PairsLength(smaller, params)
       IN  /\ SubSeq(text, at + 1, at + Len(PairText(k, params[k])))
                = PairText(k, params[k])
           /\ smaller # {} => text[at] = ","

\* C16: authorizationString returns, for every parameter mapping, "OAuth "
\* followed by the key="value" pairs of all keys in ascending byte-wise key
\* order, separated by single commas with none leading or trailing, each
\* value verbatim; for {b: "2", a: "1"} it is exactly OAuth a="1",b="2".
C16_AuthorizationHeaderFormat ==
  out.op = "authorizationString"
    => /\ IsAuthorizationOf(out.ret[1], out.in.arg)
       /\ out.in.arg = (<<"b">> :> <<"2">> @@ <<"a">> :> <<"1">>)
            => out.ret[1] = <<"O","A","u","t","h"," ",
                              "a","=","\"","1","\"",",","b","=","\"","2","\"">>

\* C16 witness: a mapping of four keys, one value holding a space, a percent
\* sign and an equals sign, was serialised with that value as it is.
C16_Witness ==
  /\ out.op = "authorizationString"
  /\ DOMAIN out.in.arg = ParamKeys
  /\ out.in.arg[<<"B">>] = <<" ", "%", "=">>
  /\ SubSeq(out.ret[1], 7, 13) = <<"B", "=", "\"", " ", "%", "=", "\"">>

\* The unreserved characters: A-Z, a-z, 0-9 and - . _ ~
Unreserved ==
  { c \in Chars \ {"(grave)"} :
      \/ (Ord[c] >= Ord["A"] /\ Ord[c] <= Ord["Z"])
      \/ (Ord[c] >= Ord["a"] /\ Ord[c] <= Ord["z"])
      \/ (Ord[c] >= Ord["0"] /\ Ord[c] <= Ord["9"])
      \/ c \in {"-", ".", "_", "~"} }

\* C17: the encoding used for the base string and the signing key
\* (url.QueryEscape) leaves exactly the unreserved characters unchanged and
\* replaces every other character, the space too, by its %XX escape.
C17_PercentEncoding ==
  out.op = "QueryEscape"
    => /\ out.ret[1] = percentEncode(out.in.arg)
       /\ Len(out.in.arg) = 1
            => IF out.in.arg[1] \in Unreserved
                 THEN out.ret[1] = out.in.arg
                 ELSE out.ret[1] = <<"%", HexDigits[(Ord[out.in.arg[1]] \div 16) + 1],
                                     HexDigits[(Ord[out.in.arg[1]] % 16) + 1]>>

\* The size the put of the call adds to the cache: that of the new secret,
\* less that of the secret it replaces.
PutGrowth ==
  tokenCacheItemSize(AnswerSecret)
    - (IF AnswerToken \in Keys(prev)
         THEN tokenCacheItemSize(Entries(prev)[AnswerToken]) ELSE 0)

\* C18: capacity pressure is the only thing that removes an entry of the
\* store: an entry stored before a call (of AuthorizeRedirect,
\* AuthorizeToken, successful or failed, GetAuthenticatedUser or
\* RedirectRequired) or before time passes is still retrievable, with its
\* secret, afterwards, unless the call made a put that took the size over
\* the capacity; the secret changes only by a put of the same token.
C18_OnlyCapacityEvicts ==
  \A k \in Keys(prev) :
    /\ k \notin Keys(tokenCache)
         => /\ IsAuthorizeRedirect /\ out.result = "ok"
            /\ prev.size + PutGrowth > prev.capacity
    /\ k \in Keys(tokenCache)
         => /\ LRUGet(tokenCache, k).ok
            /\ \/ LRUGet(tokenCache, k).v = Entries(prev)[k]
               \/ IsAuthorizeRedirect /\ out.result = "ok" /\ k = AnswerToken

\* C18 witness: after time has passed, an entry served a successful
\* AuthorizeToken and is still stored with its secret.
C18_Witness ==
  /\ IsAuthorizeToken /\ out.result = "ok"
  /\ now > 0
  /\ CallbackToken \in Keys(tokenCache)
  /\ Entries(tokenCache) = Entries(prev)

\* The query q is that of the redirect of the call: the caller's parameters
\* with their values, and oauth_token once, with the token just issued.
RedirectQueryIs(q, params, requestToken) ==
  /\ DOMAIN q = (DOMAIN params \cup {oauth_token})
  /\ \A k \in DOMAIN params \ {oauth_token} : q[k] = params[k]
  /\ q[oauth_token] = <<requestToken>>

\* C19: the redirect URL written by AuthorizeRedirect is the caller's
\* endpoint with a query that holds every parameter the caller passed, its
\* value unchanged, and exactly one oauth_token, the request token just
\* issued; for every params argument: nil, one that already holds an
\* oauth_token, one used by an earlier call.
C19_RedirectUrlComposition ==
  (IsAuthorizeRedirect /\ out.result = "ok")
    => /\ Len(out.redirect) = 1
       /\ urlParse(out.redirect[1].Location).prefix = urlParse(out.in.endpoint).prefix
       /\ RedirectQueryIs(ParseQuery(urlParse(out.redirect[1].Location).RawQuery),
                          out.in.params.m, AnswerToken)

\* C20: within AuthorizeRedirect the secret is put into tokenCache before
\* the redirect is written: whenever the redirect of an attempt is out, its
\* put has taken effect, so that the callback that follows the redirect is
\* never handled before the entry was stored.
C20_StoredBeforeRedirect ==
  \A i \in FlowIds :
    /\ flows[i].redirected => flows[i].stored
    /\ (flows[i].pc = "exchange" /\ flows[i].token # Forged) => flows[i].stored

\* C20 witness: the callback of a redirected attempt found the entry that
\* the attempt stored.
C20_Witness ==
  \E i \in FlowIds :
    /\ flows[i].redirected /\ flows[i].stored
    /\ flows[i].pc = "exchange"
    /\ flows[i].got = [v |-> flows[i].secret, ok |-> TRUE]

=============================================================================
